---- MODULE Spec2Model ----
(***************************************************************************)
(* Model of scrape.py (FirehoseScraper): the firehose message pipeline     *)
(* (process_message, _process_post, _resolve_author_handle,                *)
(* _extract_post_data, _save_post_data) and the session loop of            *)
(* start_collection with its retry/backoff and _stop_collection.           *)
(*                                                                         *)
(* Strings whose structure the code inspects (paths, DIDs, aliases, URIs)  *)
(* are sequences of chunks, so that startswith, split and the f-string     *)
(* concatenation are computed and not assumed.  Python dicts are functions *)
(* wrapped in a tagged record, so that isinstance(record, dict) and .get   *)
(* on a non-dict can be told apart.  An optional value (None or a value)   *)
(* is a set with at most one element.                                      *)
(*                                                                         *)
(* The output file is only appended to and never read back: the model      *)
(* keeps the number of lines appended (output) and, in last.saved, the     *)
(* lines appended by the last message.  Of the summary only the post count *)
(* is kept.  The verbose echo of a saved post (lines 85-86) changes no     *)
(* state and is left out.  The transport (client.start, client.stop) and   *)
(* the resolution backend are the environment: client.start may deliver    *)
(* any message, raise at any time, and return once stop() has been called. *)
(***************************************************************************)
EXTENDS Integers, Sequences, FiniteSets, TLC

VARIABLES
  pc,              \* position of start_collection: idle, started, sleeping, done, raised
  now,             \* time.time(), saturating at MaxTime
  start_time,      \* self.start_time
  duration_seconds,\* argument of start_collection (0 stands for None: both are falsy)
  post_limit,      \* argument of start_collection (0 stands for None: both are falsy)
  retry_count,     \* local of start_collection
  retry_delay,     \* local of start_collection
  post_count,      \* self.post_count
  output,          \* number of lines appended to self.output_file (never read back)
  cache,           \* self.cache: DID -> cached also_known_as (at most one)
  clientStopped,   \* self.client.stop() has been called
  summary,         \* post count of the last summary printed by _stop_collection
  fatal,           \* "Fatal error after ..." has been printed
  delays,          \* arguments of time.sleep, in order
  starts,          \* number of calls of self.client.start
  interrupted,     \* a KeyboardInterrupt has been delivered to the process
  last             \* what the last call of message_handler did

vars == <<pc, now, start_time, duration_seconds, post_limit, retry_count,
          retry_delay, post_count, output, cache, clientStopped, summary,
          fatal, delays, starts, interrupted, last>>

-----------------------------------------------------------------------------
(* Bounds of the model *)

MaxFile == 4          \* lines the output file may hold
MaxDuration == 1      \* largest duration_seconds tried
MaxLimit == 2         \* largest post_limit tried
MaxTime == MaxDuration + 1   \* the clock saturates just past every deadline

(* Program constants *)

MAX_RETRIES == 3
INITIAL_RETRY_DELAY == 5
BACKOFF_FACTOR == 2

POST_PREFIX == <<"app.bsky.feed.post", "/">>
POST_TYPE == "app.bsky.feed.post"
IMAGES_TYPE == "app.bsky.embed.images"
EXTERNAL_TYPE == "app.bsky.embed.external"
AT_SCHEME == "at://"

-----------------------------------------------------------------------------
(* Python values *)

Dict(f) == [py |-> "dict", items |-> f]
NotADict == [py |-> "bytes"]
EmptyDict == [py |-> "dict", items |-> <<>>]
IsDict(v) == v.py = "dict"
Has(d, k) == k \in DOMAIN d.items
None == {}
Some(x) == {x}

Min(a, b) == IF a < b THEN a ELSE b

\* The element of a singleton.  A value that is used several times is bound
\* as the element of a singleton, { e(x) : x \in {v} }, so that it is
\* computed once.
Only(S) == CHOOSE x \in S : TRUE

\* str.startswith
StartsWith(s, p) == Len(s) >= Len(p) /\ SubSeq(s, 1, Len(p)) = p

\* str.split(sep): the pieces between the occurrences of sep
RECURSIVE Split(_, _)
Split(s, sep) ==
  IF s = <<>> THEN << <<>> >>
  ELSE IF Head(s) = sep THEN << <<>> >> \o Split(Tail(s), sep)
  ELSE LET r == Split(Tail(s), sep)
       IN  << <<Head(s)>> \o Head(r) >> \o Tail(r)

-----------------------------------------------------------------------------
(* Inputs: the messages the firehose can deliver *)

Did1 == <<"did:plc:", "xyz">>
Did2 == <<"did:plc:", "abc">>
Dids == {Did1, Did2}

PathPostA == <<"app.bsky.feed.post", "/", "abc123">>
PathPostB == <<"app.bsky.feed.post", "/", "def456">>
PathLikeA == <<"app.bsky.feed.like", "/", "abc123">>
PathGateA == <<"app.bsky.feed.post", "gate", "/", "abc123">>

Op(a, p) == [action |-> a, path |-> p]

OpsChoices ==
  { <<>>,
    << Op("create", PathPostA) >>,
    << Op("create", PathPostA), Op("create", PathPostB) >>,
    << Op("delete", PathPostA), Op("create", PathLikeA) >>,
    << Op("create", PathGateA), Op("update", PathPostB) >>,
    << Op("delete", PathPostB), Op("create", PathPostB) >> }

ParentUri == <<"at://", "did:plc:", "foo", "/", "app.bsky.feed.post", "/", "1">>

Post1 == Dict(("$type" :> POST_TYPE) @@ ("text" :> "hello")
              @@ ("createdAt" :> "2024-01-01T00:00:00Z"))
Post2 == Dict(("$type" :> POST_TYPE)
              @@ ("embed" :> Dict(("$type" :> IMAGES_TYPE)))
              @@ ("reply" :> Dict(("parent" :> Dict(("uri" :> ParentUri))))))
PostBadEmbed == Dict(("$type" :> POST_TYPE) @@ ("text" :> "hello")
                     @@ ("embed" :> NotADict))
LikeRecord == Dict(("$type" :> "app.bsky.feed.like"))

Car(vs) == [ok |-> TRUE, values |-> vs]
MalformedCar == [ok |-> FALSE, values |-> <<>>]

BlocksChoices ==
  { MalformedCar,
    Car(<<>>),
    Car(<<Post1>>),
    Car(<<Post1, Post2>>),
    Car(<<LikeRecord, NotADict, Post2>>),
    Car(<<PostBadEmbed, Post1>>) }

\* kind "garbage": parse_subscribe_repos_message raises
\* kind "other":   a message without ops (an identity or account event)
\* kind "commit":  a commit with repo, ops and blocks
Garbage == [kind |-> "garbage", repo |-> Did1, ops |-> <<>>, blocks |-> MalformedCar]
Other == [kind |-> "other", repo |-> Did1, ops |-> <<>>, blocks |-> MalformedCar]
Commits ==
  [kind : {"commit"}, repo : {Did1}, ops : OpsChoices, blocks : BlocksChoices]
  \cup [kind : {"commit"}, repo : {Did2},
        ops : {<< Op("create", PathPostA), Op("create", PathPostB) >>},
        blocks : {Car(<<Post1>>)}]
Messages == {Garbage, Other} \cup Commits

\* What self.resolver.did.resolve gets from the resolution backend on a miss
AkaChoices ==
  { <<>>,
    << <<"at://", "alice.bsky.social">> >>,
    << <<"https://", "alice.example">>, <<"at://", "alice.bsky.social">> >> }
BackendOutcomes ==
  { [kind |-> "raise", aka |-> <<>>], [kind |-> "none", aka |-> <<>>] }
  \cup [kind : {"doc"}, aka : AkaChoices]

-----------------------------------------------------------------------------
(* The resolver with its cache (self.resolver = IdResolver(cache=self.cache)) *)

\* self.resolver.did.resolve(repo): a hit is served from the cache; a miss
\* asks the backend, whose answer res is an input, and caches a document.
DidResolve(c, repo, res) ==
  IF c[repo] # None
    THEN [exc |-> FALSE, doc |-> c[repo], cache |-> c, called |-> FALSE]
  ELSE IF res.kind = "raise"
    THEN [exc |-> TRUE, doc |-> None, cache |-> c, called |-> TRUE]
  ELSE IF res.kind = "none"
    THEN [exc |-> FALSE, doc |-> None, cache |-> c, called |-> TRUE]
  ELSE [exc |-> FALSE, doc |-> Some(res.aka),
        cache |-> [c EXCEPT ![repo] = Some(res.aka)], called |-> TRUE]

\* also_known_as[0].split('at://')[1] if also_known_as else repo, applied to
\* the result r of the lookup.  A None document (AttributeError) and a first
\* alias without the scheme (IndexError) raise.
HandleOf(r, repo) ==
  LET aka == Only(r.doc)
      parts == Split(aka[1], AT_SCHEME)
  IN  IF r.exc \/ r.doc = None THEN [exc |-> TRUE, handle |-> repo]
      ELSE IF aka = <<>> THEN [exc |-> FALSE, handle |-> repo]
      ELSE IF Len(parts) < 2 THEN [exc |-> TRUE, handle |-> repo]
      ELSE [exc |-> FALSE, handle |-> parts[2]]

_resolve_author_handle_raises(c, repo, res) ==
  Only({ [handle |-> HandleOf(r, repo).handle, caught |-> FALSE,
          exc |-> IF HandleOf(r, repo).exc THEN "Exception" ELSE "none",
          cache |-> r.cache, called |-> r.called]
         : r \in {DidResolve(c, repo, res)} })

\* try: ... except Exception: print(...); return repo
_resolve_author_handle(c, repo, res) ==
  Only({ [handle |-> IF HandleOf(r, repo).exc THEN repo
                     ELSE HandleOf(r, repo).handle,
          caught |-> HandleOf(r, repo).exc, exc |-> "none",
          cache |-> r.cache, called |-> r.called]
         : r \in {DidResolve(c, repo, res)} })

-----------------------------------------------------------------------------
(* Extraction *)

\* dict.get(key, default) on a dict
Get(d, k, default) == IF Has(d, k) THEN d.items[k] ELSE default

_check_for_images_any_external(record) ==
  LET embed == Get(record, "embed", EmptyDict)
      type == IF Has(embed, "$type") THEN Some(embed.items["$type"]) ELSE None
  IN  IF ~IsDict(embed) THEN [exc |-> TRUE, val |-> FALSE]
      ELSE [exc |-> FALSE,
            val |-> (type = Some(IMAGES_TYPE) \/ type = Some(EXTERNAL_TYPE))]

\* embed = record.get('embed', {}); embed.get('$type') == ... : .get on an
\* embed that is not a dict raises AttributeError
_check_for_images(record) ==
  LET embed == Get(record, "embed", EmptyDict)
      type == IF Has(embed, "$type") THEN Some(embed.items["$type"]) ELSE None
  IN  IF ~IsDict(embed) THEN [exc |-> TRUE, val |-> FALSE]
      ELSE [exc |-> FALSE,
            val |-> (type = Some(IMAGES_TYPE)
                     \/ (type = Some(EXTERNAL_TYPE) /\ Has(embed, "thumb")))]

_get_reply_to(record) ==
  LET reply_ref == Get(record, "reply", EmptyDict)
      parent == Get(reply_ref, "parent", EmptyDict)
  IN  IF ~IsDict(reply_ref) THEN [exc |-> TRUE, val |-> None]
      ELSE IF ~IsDict(parent) THEN [exc |-> TRUE, val |-> None]
      ELSE [exc |-> FALSE,
            val |-> IF Has(parent, "uri") THEN Some(parent.items["uri"]) ELSE None]

\* f'at://{repo}/{path}'
Uri(repo, path) == <<"at://">> \o repo \o <<"/">> \o path

_extract_post_data(record, repo, path, author_handle) ==
  LET has_images == _check_for_images(record)
      reply_to == _get_reply_to(record)
  IN  [exc |-> has_images.exc \/ reply_to.exc,
       val |-> [text |-> Get(record, "text", ""),
                created_at |-> Get(record, "createdAt", ""),
                author |-> author_handle,
                uri |-> Uri(repo, path),
                has_images |-> has_images.val,
                reply_to |-> reply_to.val]]

-----------------------------------------------------------------------------
(* The pipeline.  It threads a record st through the calls:                *)
(*   output, post_count, cache : the scraper's state; the lines themselves *)
(*              are kept in saved                                          *)
(*   exc      : the exception in flight: none, Exception, KeyboardInterrupt*)
(*   errs     : the diagnostics printed by the except clauses              *)
(*   saved    : the records appended while handling this message           *)
(*   attempts : calls of _save_post_data while handling this message       *)
(*   resolves, decodes, backend : calls of _resolve_author_handle, of      *)
(*              CAR.from_bytes and of the resolution backend               *)
(* and an environment env for this message:                                *)
(*   res    : the backend's answer to a lookup that misses the cache       *)
(*   failAt : the save attempt whose open/write raises (0: none)           *)
(*   intAt  : the save attempt at which a KeyboardInterrupt arrives (0:    *)
(*            none)                                                        *)
(***************************************************************************)

Begin(out, count, c) ==
  [output |-> out, post_count |-> count, cache |-> c, exc |-> "none",
   errs |-> {}, saved |-> <<>>, attempts |-> 0, resolves |-> 0,
   decodes |-> 0, backend |-> 0, ioFailed |-> FALSE]

Raise(st) == [st EXCEPT !.exc = "Exception"]

\* except Exception as e: print(...)
Catch(result, what) ==
  Only({ IF st.exc = "Exception"
           THEN [st EXCEPT !.exc = "none", !.errs = @ \cup {what}]
           ELSE st
         : st \in {result} })

_save_post_data_count_first(st, post_data, env) ==
  IF env.intAt = st.attempts + 1
    THEN [st EXCEPT !.attempts = @ + 1, !.exc = "KeyboardInterrupt"]
  ELSE IF env.failAt = st.attempts + 1
    THEN [st EXCEPT !.attempts = @ + 1, !.exc = "Exception",
                    !.ioFailed = TRUE, !.post_count = @ + 1]
  ELSE [st EXCEPT !.attempts = @ + 1,
                  !.output = @ + 1,
                  !.saved = Append(@, post_data),
                  !.post_count = @ + 1]

\* with open(self.output_file, 'a') as f: ...; self.post_count += 1
_save_post_data(st, post_data, env) ==
  IF env.intAt = st.attempts + 1
    THEN [st EXCEPT !.attempts = @ + 1, !.exc = "KeyboardInterrupt"]
  ELSE IF env.failAt = st.attempts + 1
    THEN [st EXCEPT !.attempts = @ + 1, !.exc = "Exception",
                    !.ioFailed = TRUE]
  ELSE [st EXCEPT !.attempts = @ + 1,
                  !.output = @ + 1,
                  !.saved = Append(@, post_data),
                  !.post_count = @ + 1]

\* isinstance(record, dict) and record.get('$type') == 'app.bsky.feed.post'
IsPost(record) ==
  IsDict(record) /\ Has(record, "$type") /\ record.items["$type"] = POST_TYPE

RECURSIVE SaveRecords_first_only(_, _, _, _, _, _)
SaveRecords_first_only(st, records, repo, path, author_handle, env) ==
  IF records = <<>> THEN st
  ELSE IF ~IsPost(Head(records))
    THEN SaveRecords_first_only(st, Tail(records), repo, path, author_handle,
                                env)
  ELSE Only({
         IF post_data.exc THEN Raise(st)
         ELSE _save_post_data(st, post_data.val, env)
         : post_data \in {_extract_post_data(Head(records), repo, path,
                                             author_handle)} })

\* for record in car.blocks.values(): ... ; an exception leaves the loop
RECURSIVE SaveRecords(_, _, _, _, _, _)
SaveRecords(st, records, repo, path, author_handle, env) ==
  IF records = <<>> THEN st
  ELSE IF ~IsPost(Head(records))
    THEN SaveRecords(st, Tail(records), repo, path, author_handle, env)
  ELSE Only({
         IF post_data.exc THEN Raise(st)
         ELSE Only({ IF s.exc # "none" THEN s
                     ELSE SaveRecords(s, Tail(records), repo, path,
                                      author_handle, env)
                     : s \in {_save_post_data(st, post_data.val, env)} })
         : post_data \in {_extract_post_data(Head(records), repo, path,
                                             author_handle)} })

\* the body of the try statement of _process_post, r being the result of
\* _resolve_author_handle
DecodeAndSave(st, commit, op, env, r) ==
  Only({ IF r.exc # "none" THEN [s EXCEPT !.exc = r.exc]
         ELSE IF ~commit.blocks.ok THEN Raise([s EXCEPT !.decodes = @ + 1])
         ELSE SaveRecords([s EXCEPT !.decodes = @ + 1], commit.blocks.values,
                          commit.repo, op.path, r.handle, env)
         : s \in {[st EXCEPT !.cache = r.cache,
                             !.resolves = @ + 1,
                             !.backend = @ + (IF r.called THEN 1 ELSE 0),
                             !.errs = @ \cup (IF r.caught THEN {"resolve"}
                                              ELSE {})]} })

_process_post_body(st, commit, op, env) ==
  Only({ DecodeAndSave(st, commit, op, env, r)
         : r \in {_resolve_author_handle(st.cache, commit.repo, env.res)} })

_process_post(st, commit, op, env) ==
  Catch(_process_post_body(st, commit, op, env), "record")

Matches_any_action(op) == StartsWith(op.path, POST_PREFIX)

\* op.action == 'create' and op.path.startswith('app.bsky.feed.post/')
Matches(op) == op.action = "create" /\ StartsWith(op.path, POST_PREFIX)

\* for op in commit.ops: ... ; an exception leaves the loop
RECURSIVE ForOps(_, _, _, _)
ForOps(st, commit, ops, env) ==
  IF ops = <<>> THEN st
  ELSE IF ~Matches(Head(ops)) THEN ForOps(st, commit, Tail(ops), env)
  ELSE Only({ IF s.exc # "none" THEN s
              ELSE ForOps(s, commit, Tail(ops), env)
              : s \in {_process_post(st, commit, Head(ops), env)} })

process_message_body(st, message, env) ==
  IF message.kind = "garbage" THEN Raise(st)
  ELSE IF message.kind = "other" THEN st
  ELSE ForOps(st, message, message.ops, env)

process_message_uncaught(st, message, env) ==
  process_message_body(st, message, env)

process_message(st, message, env) ==
  Catch(process_message_body(st, message, env), "message")

\* An upper bound on the calls of _save_post_data one message can cause
MaxAttempts(message) ==
  Cardinality({i \in DOMAIN message.ops : Matches(message.ops[i])})
    * Len(message.blocks.values)

-----------------------------------------------------------------------------
(* The session: start_collection, message_handler, _stop_collection *)

NoLast == [kind |-> "none"]

\* The backend answers that can matter to a message: the backend is asked
\* only on a cache miss, in _process_post
NoAnswer == [kind |-> "raise", aka |-> <<>>]
Answers(message, outcomes) ==
  IF message.kind = "commit" /\ cache[message.repo] = None
     /\ \E i \in DOMAIN message.ops : message.ops[i].action = "create"
    THEN outcomes
    ELSE {NoAnswer}

Init ==
  /\ pc = "idle"
  /\ now = 0
  /\ start_time = None
  /\ duration_seconds = 0
  /\ post_limit = 0
  /\ retry_count = 0
  /\ retry_delay = 0
  /\ post_count = 0
  /\ output = 0
  /\ cache = [d \in Dids |-> None]
  /\ clientStopped = FALSE
  /\ summary = None
  /\ fatal = FALSE
  /\ delays = <<>>
  /\ starts = 0
  /\ interrupted = FALSE
  /\ last = NoLast

\* end_time = self.start_time + duration_seconds if duration_seconds else None
end_time ==
  IF duration_seconds # 0
    THEN Some((CHOOSE t \in start_time : TRUE) + duration_seconds)
    ELSE None

DurationElapsed_late ==
  duration_seconds # 0 /\ \E e \in end_time : now > e + duration_seconds

\* the two tests of message_handler that lead to _stop_collection
DurationElapsed == duration_seconds # 0 /\ \E e \in end_time : now > e
LimitReached == post_limit # 0 /\ post_count >= post_limit

\* _stop_collection, called when self.post_count is count: the summary is
\* printed, then self.client.stop() is called
_stop_collection(count) ==
  /\ summary' = Some(count)
  /\ clientStopped' = TRUE

\* start_collection up to its first call of self.client.start
StartCollection(d, l) ==
  /\ pc = "idle"
  /\ start_time' = Some(now)
  /\ duration_seconds' = d
  /\ post_limit' = l
  /\ retry_count' = 0
  /\ retry_delay' = INITIAL_RETRY_DELAY
  /\ pc' = IF 0 < MAX_RETRIES THEN "started" ELSE "done"
  /\ starts' = IF 0 < MAX_RETRIES THEN starts + 1 ELSE starts
  /\ last' = NoLast
  /\ UNCHANGED <<now, post_count, output, cache, clientStopped, summary,
                 fatal, delays, interrupted>>

\* except Exception: of the retry loop, entered when self.client.start
\* raises while self.post_count is count
FatalExit_without_stop(count) ==
  /\ fatal' = TRUE
  /\ pc' = "done"
  /\ UNCHANGED <<summary, clientStopped, delays>>

FatalExit(count) ==
  /\ fatal' = TRUE
  /\ _stop_collection(count)
  /\ pc' = "done"
  /\ UNCHANGED delays

ExceptException_no_count(count) ==
  /\ retry_count' = retry_count
  /\ IF retry_count >= MAX_RETRIES
       THEN FatalExit(count)
       ELSE /\ pc' = "sleeping"
            /\ delays' = Append(delays, retry_delay)
            /\ UNCHANGED <<fatal, summary, clientStopped>>
  /\ UNCHANGED <<now, start_time, duration_seconds, post_limit, retry_delay,
                 starts, interrupted>>

\* except Exception as e: retry_count += 1; the last failure is fatal, any
\* other one is followed by time.sleep(retry_delay)
ExceptException(count) ==
  /\ retry_count' = retry_count + 1
  /\ IF retry_count + 1 >= MAX_RETRIES
       THEN FatalExit(count)
       ELSE /\ pc' = "sleeping"
            /\ delays' = Append(delays, retry_delay)
            /\ UNCHANGED <<fatal, summary, clientStopped>>
  /\ UNCHANGED <<now, start_time, duration_seconds, post_limit, retry_delay,
                 starts, interrupted>>

\* except KeyboardInterrupt: of the retry loop
ExceptKeyboardInterrupt(count) ==
  /\ interrupted' = TRUE
  /\ _stop_collection(count)
  /\ pc' = "done"
  /\ UNCHANGED <<now, start_time, duration_seconds, post_limit, retry_count,
                 retry_delay, fatal, delays, starts>>

\* What a call of message_handler did: the message, the backend's answer if
\* the backend was asked, self.post_count before the call, the lines
\* appended, the calls made, the diagnostics printed, and whether the call
\* before it (with no other event in between) printed a diagnostic
Observed(kind, message, res, before, st) ==
  [kind |-> kind, msg |-> message, res |-> res, before |-> before,
   saved |-> st.saved, resolves |-> st.resolves, decodes |-> st.decodes,
   backend |-> st.backend, errs |-> st.errs, ioFailed |-> st.ioFailed,
   afterFailure |-> (last.kind = "msg" /\ last.errs # {})]

\* message_handler(message), called by the transport inside client.start
MessageHandler(message, res, failAt) ==
  /\ pc = "started"
  /\ IF DurationElapsed \/ LimitReached
       THEN /\ res = NoAnswer /\ failAt = 0
            /\ _stop_collection(post_count)
            /\ last' = [kind |-> "stop", msg |-> message, before |-> post_count]
            /\ UNCHANGED <<pc, now, start_time, duration_seconds, post_limit,
                           retry_count, retry_delay, post_count, output, cache,
                           fatal, delays, starts, interrupted>>
       ELSE \E st \in {process_message(Begin(output, post_count, cache), message,
                                        [res |-> res, failAt |-> failAt,
                                         intAt |-> 0])} :
                /\ failAt <= st.attempts
                /\ (st.backend = 0 => res = NoAnswer)
                /\ st.output <= MaxFile
                /\ output' = st.output
                /\ post_count' = st.post_count
                /\ cache' = st.cache
                /\ last' = Observed("msg", message, res, post_count, st)
                /\ IF st.exc = "none"
                     THEN UNCHANGED <<pc, now, start_time, duration_seconds,
                                      post_limit, retry_count, retry_delay,
                                      clientStopped, summary, fatal, delays,
                                      starts, interrupted>>
                     ELSE ExceptException(st.post_count)

\* a KeyboardInterrupt arrives while message_handler is at its k-th save
InterruptInHandler(message, res, k) ==
  /\ pc = "started"
  /\ ~(DurationElapsed \/ LimitReached)
  /\ \E st \in {process_message(Begin(output, post_count, cache), message,
                                 [res |-> res, failAt |-> 0, intAt |-> k])} :
         /\ st.exc = "KeyboardInterrupt"
         /\ (st.backend = 0 => res = NoAnswer)
         /\ output' = st.output
         /\ post_count' = st.post_count
         /\ cache' = st.cache
         /\ last' = Observed("interrupted", message, res, post_count, st)
         /\ ExceptKeyboardInterrupt(st.post_count)

\* a KeyboardInterrupt arrives while client.start waits for a message
InterruptWaiting ==
  /\ pc = "started"
  /\ last' = NoLast
  /\ UNCHANGED <<post_count, output, cache>>
  /\ ExceptKeyboardInterrupt(post_count)

\* a KeyboardInterrupt arrives during time.sleep(retry_delay): the sleep is
\* inside the except clause, where no clause of the try statement applies
InterruptSleeping ==
  /\ pc = "sleeping"
  /\ interrupted' = TRUE
  /\ pc' = "raised"
  /\ last' = NoLast
  /\ UNCHANGED <<now, start_time, duration_seconds, post_limit, retry_count,
                 retry_delay, post_count, output, cache, clientStopped,
                 summary, fatal, delays, starts>>

\* self.client.start returns after stop(): break
ClientStartReturns ==
  /\ pc = "started"
  /\ clientStopped
  /\ pc' = "done"
  /\ last' = NoLast
  /\ UNCHANGED <<now, start_time, duration_seconds, post_limit, retry_count,
                 retry_delay, post_count, output, cache, clientStopped,
                 summary, fatal, delays, starts, interrupted>>

\* self.client.start raises (connection refused or lost)
ClientStartRaises ==
  /\ pc = "started"
  /\ last' = NoLast
  /\ UNCHANGED <<post_count, output, cache>>
  /\ ExceptException(post_count)

BackoffElapsed_restarts_clock ==
  /\ pc = "sleeping"
  /\ now' = Min(now + retry_delay, MaxTime)
  /\ start_time' = Some(now')
  /\ retry_delay' = retry_delay * BACKOFF_FACTOR
  /\ pc' = IF retry_count < MAX_RETRIES THEN "started" ELSE "done"
  /\ starts' = IF retry_count < MAX_RETRIES THEN starts + 1 ELSE starts
  /\ last' = NoLast
  /\ UNCHANGED <<duration_seconds, post_limit, retry_count, post_count,
                 output, cache, clientStopped, summary, fatal, delays,
                 interrupted>>

BackoffElapsed_resets_count ==
  /\ pc = "sleeping"
  /\ now' = Min(now + retry_delay, MaxTime)
  /\ post_count' = 0
  /\ retry_delay' = retry_delay * BACKOFF_FACTOR
  /\ pc' = IF retry_count < MAX_RETRIES THEN "started" ELSE "done"
  /\ starts' = IF retry_count < MAX_RETRIES THEN starts + 1 ELSE starts
  /\ last' = NoLast
  /\ UNCHANGED <<start_time, duration_seconds, post_limit, retry_count,
                 output, cache, clientStopped, summary, fatal, delays,
                 interrupted>>

\* time.sleep(retry_delay) returns; retry_delay *= 2; the loop calls
\* self.client.start again
BackoffElapsed ==
  /\ pc = "sleeping"
  /\ now' = Min(now + retry_delay, MaxTime)
  /\ retry_delay' = retry_delay * BACKOFF_FACTOR
  /\ pc' = IF retry_count < MAX_RETRIES THEN "started" ELSE "done"
  /\ starts' = IF retry_count < MAX_RETRIES THEN starts + 1 ELSE starts
  /\ last' = NoLast
  /\ UNCHANGED <<start_time, duration_seconds, post_limit, retry_count,
                 post_count, output, cache, clientStopped, summary, fatal,
                 delays, interrupted>>

\* the clock advances while client.start waits for the next message
Tick ==
  /\ pc = "started"
  /\ now < MaxTime
  /\ now' = now + 1
  /\ last' = NoLast
  /\ UNCHANGED <<pc, start_time, duration_seconds, post_limit, retry_count,
                 retry_delay, post_count, output, cache, clientStopped,
                 summary, fatal, delays, starts, interrupted>>

\* The session under every transport and clock event, with a few messages
SessionMessages ==
  { Garbage,
    [kind |-> "commit", repo |-> Did1,
     ops |-> << Op("create", PathPostA) >>, blocks |-> Car(<<Post1>>)],
    [kind |-> "commit", repo |-> Did1,
     ops |-> << Op("create", PathPostA) >>, blocks |-> Car(<<Post1, Post2>>)],
    [kind |-> "commit", repo |-> Did1,
     ops |-> << Op("delete", PathPostA), Op("create", PathLikeA) >>,
     blocks |-> Car(<<Post1>>)] }
SessionOutcomes ==
  { [kind |-> "raise", aka |-> <<>>],
    [kind |-> "doc", aka |-> << <<"at://", "alice.bsky.social">> >>] }

Next ==
  \/ \E d \in 0..MaxDuration, l \in 0..MaxLimit : StartCollection(d, l)
  \/ \E m \in SessionMessages : \E res \in Answers(m, SessionOutcomes) :
        \E f \in 0..MaxAttempts(m) : MessageHandler(m, res, f)
  \/ \E m \in SessionMessages : \E res \in Answers(m, SessionOutcomes) :
        \E k \in 1..MaxAttempts(m) : InterruptInHandler(m, res, k)
  \/ InterruptWaiting
  \/ InterruptSleeping
  \/ ClientStartReturns
  \/ ClientStartRaises
  \/ BackoffElapsed
  \/ Tick

Spec == Init /\ [][Next]_vars

\* Every message and every backend answer, on a transport that stays
\* connected and with no duration configured
NextEvents ==
  \/ \E l \in {0, MaxLimit} : StartCollection(0, l)
  \/ \E m \in Messages : \E res \in Answers(m, BackendOutcomes) :
        \E f \in 0..MaxAttempts(m) : MessageHandler(m, res, f)
  \/ \E m \in Messages : \E res \in Answers(m, BackendOutcomes) :
        \E k \in 1..MaxAttempts(m) : InterruptInHandler(m, res, k)
  \/ InterruptWaiting
  \/ ClientStartReturns

SpecEvents == Init /\ [][NextEvents]_vars

\* The extraction alone, on post records of every embed shape: no embed, an
\* embed that is not a dict, and dict embeds with or without a $type, a thumb
\* of their own and an external object that has a thumb
EmbedTypeChoices ==
  { None, Some(IMAGES_TYPE), Some(EXTERNAL_TYPE), Some("app.bsky.embed.video"),
    Some("app.bsky.embed.record") }
External == Dict(("uri" :> "https://example.com") @@ ("thumb" :> "blob"))
Embed(type, keys) ==
  Dict([k \in keys \cup {x \in {"$type"} : type # None} |->
          IF k = "$type" THEN Only(type)
          ELSE IF k = "thumb" THEN "blob"
          ELSE External])
EmbedChoices ==
  {NotADict}
  \cup { Embed(type, keys) : type \in EmbedTypeChoices,
                             keys \in SUBSET {"thumb", "external"} }
PostRecord(text, embed) ==
  Dict([k \in {"$type"} \cup {x \in {"text"} : text # None}
                        \cup {x \in {"embed"} : embed # None} |->
          IF k = "$type" THEN POST_TYPE
          ELSE IF k = "text" THEN Only(text)
          ELSE Only(embed)])
PostRecords ==
  { PostRecord(text, embed) :
      text \in {None, Some("hello"), Some("bye")},
      embed \in {None} \cup { Some(e) : e \in EmbedChoices } }

InitExtract ==
  /\ pc = "idle"
  /\ now = 0
  /\ start_time = None
  /\ duration_seconds = 0
  /\ post_limit = 0
  /\ retry_count = 0
  /\ retry_delay = 0
  /\ post_count = 0
  /\ output = 0
  /\ cache = [d \in Dids |-> None]
  /\ clientStopped = FALSE
  /\ summary = None
  /\ fatal = FALSE
  /\ delays = <<>>
  /\ starts = 0
  /\ interrupted = FALSE
  /\ last \in { [kind |-> "record", record |-> r] : r \in PostRecords }

\* post_data = self._extract_post_data(record, commit.repo, op.path, author_handle)
ExtractPostData ==
  /\ last.kind = "record"
  /\ last' = [kind |-> "post_data", record |-> last.record,
              post_data |-> _extract_post_data(last.record, Did1, PathPostA,
                                               Did1)]
  /\ UNCHANGED <<pc, now, start_time, duration_seconds, post_limit,
                 retry_count, retry_delay, post_count, output, cache,
                 clientStopped, summary, fatal, delays, starts, interrupted>>

NextExtract == ExtractPostData

SpecExtract == InitExtract /\ [][NextExtract]_vars

TypeOK ==
  /\ pc \in {"idle", "started", "sleeping", "done", "raised"}
  /\ now \in 0..MaxTime
  /\ post_count \in Nat
  /\ retry_count \in 0..MAX_RETRIES

-----------------------------------------------------------------------------
(* Properties *)

\* C1: with post_limit = N >= 1 the session stops saving after exactly N
\* saves: post_count never exceeds N.
C1_ExactlyNSaves == post_limit # 0 => post_count <= post_limit

\* C2: when every client.start fails, the fourth failure is the fatal one and
\* the delays slept are 5, 10, 20.
C2_FourthFailureIsFatal == fatal => (starts = 4 /\ delays = <<5, 10, 20>>)

\* C3: a failed write to the output file is fatal: the handler that met it
\* leaves the session stopping, with the summary reported.
C3_SinkFailureIsFatal ==
  (last.kind = "msg" /\ last.ioFailed) => (clientStopped /\ summary # None)

\* C4: a message whose processing fails (it cannot be parsed, decoded,
\* resolved or extracted) leaves the session streaming, with no retry and no
\* fatal error, and the message delivered right after it is processed
\* normally: a commit with one create operation on a post path and one
\* well-formed post in its bundle is saved.
C4_Failed(call) ==
  \/ call.msg.kind = "garbage"
  \/ /\ call.msg.kind = "commit"
     /\ \E i \in DOMAIN call.msg.ops :
           call.msg.ops[i] \in {Op("create", PathPostA), Op("create", PathPostB)}
     /\ \/ call.msg.blocks \in {MalformedCar, Car(<<PostBadEmbed, Post1>>)}
        \/ call.backend > 0 /\ call.res.kind \in {"raise", "none"}
C4_Clean(message) ==
  /\ message.kind = "commit"
  /\ message.ops = << Op("create", PathPostA) >>
  /\ message.blocks = Car(<<Post1>>)
C4_FailureIsContained ==
  /\ (last.kind = "msg" /\ C4_Failed(last))
       => (pc = "started" /\ retry_count = 0 /\ ~fatal /\ last.errs # {})
  /\ (last.kind = "msg" /\ last.afterFailure /\ C4_Clean(last.msg)
      /\ ~last.ioFailed)
       => (Len(last.saved) = 1 /\ post_count = last.before + 1
           /\ pc = "started")
C4_Witness ==
  /\ last.kind = "msg" /\ last.afterFailure /\ C4_Clean(last.msg)
  /\ Len(last.saved) = 1

\* C5: a KeyboardInterrupt arriving at any point of start_collection stops
\* the transport and reports the summary before start_collection ends.
C5_InterruptStops ==
  interrupted => (pc = "done" /\ clientStopped /\ summary # None)

\* C6: when the retries are exhausted, the fatal error is reported, the
\* summary is reported with the number of posts saved so far, the transport
\* is stopped, start_collection returns, and client.start is not called again.
C6_ExhaustionStops ==
  [][ /\ fatal' => (pc' = "done" /\ clientStopped' /\ summary' = Some(output')
                    /\ retry_count' = MAX_RETRIES)
      /\ fatal => (starts' = starts /\ pc' = pc) ]_vars
C6_Witness == fatal /\ output > 0 /\ pc = "done"

\* C7: every record saved from one commit event has the uri at://repo/path
\* of a matching create operation of the event, and no two distinct records
\* saved from one event have the same uri.
C7_UriUnique ==
  last.kind = "msg" =>
    /\ \A i \in DOMAIN last.saved :
          \E j \in DOMAIN last.msg.ops :
             /\ last.msg.ops[j].action = "create"
             /\ last.saved[i].uri
                  = <<"at://">> \o last.msg.repo \o <<"/">> \o last.msg.ops[j].path
    /\ \A i, j \in DOMAIN last.saved :
          last.saved[i] # last.saved[j] => last.saved[i].uri # last.saved[j].uri

\* C8: post_count is the number of lines appended to the output file; it
\* grows by exactly the appends of each message, so a save whose write fails
\* does not count; it never decreases.
C8_CountsWrites ==
  [][ /\ post_count' = output'
      /\ last'.kind \in {"msg", "interrupted"}
            => post_count' = last'.before + Len(last'.saved)
      /\ post_count' >= post_count ]_vars
C8_Witness ==
  /\ last.kind = "msg" /\ last.ioFailed /\ Len(last.saved) >= 1
  /\ post_count = output

\* C9: a commit with no operations, or with no create operation on a post
\* path, appends nothing, leaves post_count unchanged and calls neither the
\* resolver nor the block decoder, whatever its bundle holds.
C9_IsPostPath(path) ==
  Len(path) >= 2 /\ path[1] = "app.bsky.feed.post" /\ path[2] = "/"
C9_NoMatchingOp(message) ==
  /\ message.kind = "commit"
  /\ \A i \in DOMAIN message.ops :
        ~(message.ops[i].action = "create" /\ C9_IsPostPath(message.ops[i].path))
C9_NoMatchNoEffect ==
  (last.kind = "msg" /\ C9_NoMatchingOp(last.msg)) =>
    /\ last.saved = <<>>
    /\ post_count = last.before
    /\ last.resolves = 0 /\ last.decodes = 0 /\ last.backend = 0
    /\ last.errs = {}
C9_Witness ==
  /\ last.kind = "msg" /\ C9_NoMatchingOp(last.msg)
  /\ last.msg.ops # <<>>
  /\ \E i \in DOMAIN last.msg.ops : last.msg.ops[i].action = "delete"
  /\ last.msg.blocks = Car(<<Post1, Post2>>)
  /\ cache[last.msg.repo] = None

\* C10: when the resolution of the event's repo fails (the backend raises,
\* finds nothing, gives no alias, or gives a first alias without at://) every
\* record saved for the event has the repo as its author, and the event's
\* posts are still saved.
C10_ResolutionFails(res) ==
  \/ res.kind \in {"raise", "none"}
  \/ res.aka = <<>>
  \/ \A i \in DOMAIN res.aka[1] : res.aka[1][i] # "at://"
C10_FallbackToRepo ==
  (last.kind = "msg" /\ last.backend > 0 /\ C10_ResolutionFails(last.res)) =>
    /\ \A i \in DOMAIN last.saved : last.saved[i].author = last.msg.repo
    /\ (last.msg.blocks = Car(<<Post1>>) /\ ~last.ioFailed)
          => Len(last.saved) = last.resolves
C10_Witness ==
  /\ last.kind = "msg" /\ last.backend > 0 /\ last.res.kind = "doc"
  /\ last.res.aka # <<>> /\ C10_ResolutionFails(last.res)
  /\ Len(last.saved) = 2
  /\ last.saved[1].author = last.msg.repo

\* C11: the backend resolution of one actor identifier is performed at most
\* once: the lookups of one commit event, one for each matching operation, ask
\* the backend at most once for the event's repo, and the later ones are
\* served from the cache.
C11_BackendAtMostOnce ==
  last.kind \in {"msg", "interrupted"} => last.backend <= 1

\* C12: has_images of an extracted post is the boolean that is true exactly
\* when the record's embed has $type app.bsky.embed.images, or has $type
\* app.bsky.embed.external and a thumb field of its own; for every other
\* embed and for a record without embed it is the boolean false.  (An embed
\* that is not a mapping yields no post at all: the extraction raises.)
C12_EmbedIsMapping(record) ==
  "embed" \in DOMAIN record.items => record.items["embed"].py = "dict"
C12_Expected(record) ==
  /\ "embed" \in DOMAIN record.items
  /\ LET fields == record.items["embed"].items
     IN  /\ "$type" \in DOMAIN fields
         /\ \/ fields["$type"] = "app.bsky.embed.images"
            \/ /\ fields["$type"] = "app.bsky.embed.external"
               /\ "thumb" \in DOMAIN fields
C13_LateMessageStops ==
  [][ ( /\ duration_seconds >= 1
        /\ \E t \in start_time : now > t + duration_seconds
        /\ last'.kind \in {"msg", "stop", "interrupted"} )
      => ( /\ last'.kind = "stop"
           /\ output' = output
           /\ post_count' = post_count
           /\ summary' = Some(post_count)
           /\ clientStopped' ) ]_vars
C13_Witness ==
  /\ last.kind = "stop"
  /\ post_limit = 0
  /\ duration_seconds >= 1
  /\ \E t \in start_time : now > t + duration_seconds
  /\ post_count > 0
  /\ summary = Some(post_count)
  /\ clientStopped

\* C14: once message_handler has called _stop_collection for the duration or
\* the post limit, an exception from client.start is not retried: the loop
\* never sleeps a backoff delay and never calls client.start again.
C14_NoRetryAfterStop ==
  [][ (clientStopped /\ ~fatal /\ ~interrupted)
      => (pc' # "sleeping" /\ delays' = delays /\ starts' = starts) ]_vars

\* C15: a commit event with k matching operations (create on a post path)
\* and m post-typed records in its bundle, handled with no stop condition and
\* no error, appends exactly k*m records: each post-typed record once for
\* each matching operation, with the uri of that operation's path; and
\* post_count grows by k*m.
C15_IsMatchingOp(op) ==
  /\ op.action = "create"
  /\ Len(op.path) >= 2 /\ op.path[1] = "app.bsky.feed.post" /\ op.path[2] = "/"
C15_IsPostRecord(v) ==
  /\ v.py = "dict"
  /\ "$type" \in DOMAIN v.items
  /\ v.items["$type"] = "app.bsky.feed.post"
C15_Text(v) == IF "text" \in DOMAIN v.items THEN v.items["text"] ELSE ""
C15_BundleWide ==
  ( /\ last.kind = "msg"
    /\ last.msg.kind = "commit"
    /\ last.msg.blocks.ok
    /\ last.errs \subseteq {"resolve"}
    /\ ~last.ioFailed )
  => \A ops \in {SelectSeq(last.msg.ops, C15_IsMatchingOp)} :
       \A records \in {SelectSeq(last.msg.blocks.values, C15_IsPostRecord)} :
          /\ Len(last.saved) = Len(ops) * Len(records)
          /\ post_count = last.before + Len(ops) * Len(records)
          /\ \A a \in DOMAIN ops : \A b \in DOMAIN records :
                /\ last.saved[(a - 1) * Len(records) + b].uri
                     = <<"at://">> \o last.msg.repo \o <<"/">> \o ops[a].path
                /\ last.saved[(a - 1) * Len(records) + b].text
                     = C15_Text(records[b])
C15_Witness ==
  /\ last.kind = "msg"
  /\ last.errs = {}
  /\ Len(SelectSeq(last.msg.ops, C15_IsMatchingOp)) = 2
  /\ Len(SelectSeq(last.msg.blocks.values, C15_IsPostRecord)) = 2
  /\ Len(last.saved) = 4
  /\ post_count = last.before + 4

\* C16: the session state survives a reconnect: start_time is set once, at
\* the start of the session, and it, the configured duration (so the
\* deadline) and the post limit never change afterwards; a failure of
\* client.start, the backoff sleep and the next call of client.start leave
\* post_count and the output file as they are.
C16_SessionSurvivesRetry ==
  [][ /\ start_time # None
         => /\ start_time' = start_time
            /\ duration_seconds' = duration_seconds
            /\ post_limit' = post_limit
      /\ (pc # "idle" /\ (pc = "sleeping" \/ pc' = "sleeping" \/ starts' # starts))
         => (post_count' = post_count /\ output' = output) ]_vars
C16_Witness ==
  /\ pc = "started"
  /\ starts >= 2
  /\ post_count > 0 /\ output = post_count
  /\ duration_seconds >= 1
  /\ now > 0
  /\ start_time = Some(0)

\* C17: the stop conditions are absorbing: once message_handler has called
\* _stop_collection, every later call of it in the session, also after a
\* reconnect, takes the stop branch again, so no line is appended to the
\* output file and post_count never changes.
C17_StopIsAbsorbing ==
  [][ clientStopped
      => /\ output' = output
         /\ post_count' = post_count
         /\ last'.kind \in {"msg", "interrupted", "stop"}
               => (last'.kind = "stop" /\ summary' = Some(post_count)) ]_vars
C17_Witness ==
  /\ pc = "started"
  /\ clientStopped /\ ~fatal /\ ~interrupted
  /\ starts >= 2
  /\ last.kind = "stop"
  /\ post_count > 0

\* C18: start_collection makes a bounded number of connection attempts:
\* client.start is called at most max_retries (3) times in one session,
\* because retry_count only grows, by one for each failed call, and is never
\* reset; and a normal return of client.start ends the loop at once, with no
\* further call.
C18_BoundedAttempts ==
  [][ /\ starts' <= MAX_RETRIES
      /\ retry_count' >= retry_count
      /\ (pc # "idle" /\ starts' # starts)
            => (starts' = starts + 1 /\ retry_count' = starts
                /\ retry_count' < MAX_RETRIES)
      /\ (pc' = "done" /\ ~fatal' /\ ~interrupted')
            => (clientStopped' /\ starts' = starts
                /\ retry_count' = retry_count) ]_vars
C18_Witness ==
  /\ pc = "done"
  /\ ~fatal /\ ~interrupted
  /\ clientStopped
  /\ starts = MAX_RETRIES
  /\ retry_count = MAX_RETRIES - 1

====
